---- MODULE Spec2Model ----
(***************************************************************************)
(* The HTTP request gateway of core/lib/apiClient.ts (request, apiClient)  *)
(* and the posts feature that consumes it (fetchPosts, getPosts,           *)
(* PostsPage).  A call is a chain of async frames; the transport (fetch)   *)
(* and the body reader (res.json) are the environment.                     *)
(***************************************************************************)
EXTENDS Integers, Sequences, FiniteSets, TLC

(***************************************************************************)
(* Bounds of the model.                                                    *)
(***************************************************************************)
\* Longest list of posts the remote API answers with.
MaxPosts == 12
\* Largest limit a caller hands to the posts accessor.
MaxLimit == 6
\* Number of gateway calls in flight together (ConcSpec).
NCalls == 2

(***************************************************************************)
(* JavaScript values: tagged records, one field set per kind.  An object   *)
(* is the sequence of its <<key, value>> properties in insertion order.    *)
(***************************************************************************)
Undefined == [k |-> "undefined"]
Null == [k |-> "null"]
Num(n) == [k |-> "number", n |-> n]
Bool(b) == [k |-> "boolean", b |-> b]
Str(s) == [k |-> "string", s |-> s]
Obj(ps) == [k |-> "object", ps |-> ps]
Arr(xs) == [k |-> "array", xs |-> xs]

\* v.key (and v?.key for null): the property's value, undefined when missing.
HasProp(v, key) == v.k = "object" /\ \E i \in 1..Len(v.ps) : v.ps[i][1] = key
GetProp(v, key) ==
    IF HasProp(v, key)
    THEN v.ps[CHOOSE i \in 1..Len(v.ps) : v.ps[i][1] = key][2]
    ELSE Undefined

\* ToBoolean: what `x ? a : b` and `x || y` test.
Truthy(v) ==
    CASE v.k = "undefined" -> FALSE
      [] v.k = "null" -> FALSE
      [] v.k = "number" -> v.n # 0
      [] v.k = "boolean" -> v.b
      [] v.k = "string" -> v.s # ""
      [] OTHER -> TRUE

\* JSON.stringify on a defined value (strings of the model need no escapes).
RECURSIVE Stringify(_)
RECURSIVE StringifyProps(_, _)
RECURSIVE StringifyItems(_, _)
StringifyProps(ps, i) ==
    IF i > Len(ps) THEN ""
    ELSE (IF i > 1 THEN "," ELSE "")
         \o "\"" \o ps[i][1] \o "\":" \o Stringify(ps[i][2])
         \o StringifyProps(ps, i + 1)
StringifyItems(xs, i) ==
    IF i > Len(xs) THEN ""
    ELSE (IF i > 1 THEN "," ELSE "") \o Stringify(xs[i])
         \o StringifyItems(xs, i + 1)
Stringify(v) ==
    CASE v.k = "null" -> "null"
      [] v.k = "number" -> ToString(v.n)
      [] v.k = "boolean" -> (IF v.b THEN "true" ELSE "false")
      [] v.k = "string" -> "\"" \o v.s \o "\""
      [] v.k = "object" -> "{" \o StringifyProps(v.ps, 1) \o "}"
      [] v.k = "array" -> "[" \o StringifyItems(v.xs, 1) \o "]"

\* String(v), the conversion `new Error(v)` applies to its message.
RECURSIVE JsToString(_)
RECURSIVE JoinItems(_, _)
JoinItems(xs, i) ==
    IF i > Len(xs) THEN ""
    ELSE (IF i > 1 THEN "," ELSE "")
         \o (IF xs[i].k \in {"null", "undefined"} THEN "" ELSE JsToString(xs[i]))
         \o JoinItems(xs, i + 1)
JsToString(v) ==
    CASE v.k = "undefined" -> "undefined"
      [] v.k = "null" -> "null"
      [] v.k = "number" -> ToString(v.n)
      [] v.k = "boolean" -> (IF v.b THEN "true" ELSE "false")
      [] v.k = "string" -> v.s
      [] v.k = "object" -> "[object Object]"
      [] v.k = "array" -> JoinItems(v.xs, 1)

(***************************************************************************)
(* The values that travel: posts, request bodies, response bodies.         *)
(***************************************************************************)
Post(i) ==
    Obj(<< <<"id", Num(i)>>, <<"title", Str("t")>>,
           <<"body", Str("b")>>, <<"userId", Num(1)>> >>)
PostList(n) == Arr([i \in 1..n |-> Post(i)])

TitleX == Obj(<< <<"title", Str("x")>> >>)
Message(v) == Obj(<< <<"message", v>> >>)

\* Values a response body decodes to.
JsonValues ==
    {PostList(n) : n \in 0..MaxPosts}
    \cup {Null, Num(0), Str("x"), Obj(<< >>), TitleX,
          Message(Str("boom")), Message(Str("")), Message(Num(7)),
          Message(Num(0)), Message(Null), Message(Bool(FALSE))}

\* Response body texts: every JSON text of the model and two that are not JSON.
BodyTexts == {Stringify(v) : v \in JsonValues} \cup {"<html>", ""}

\* res.json(): the decoded value, or a SyntaxError.
JsonText == [v \in JsonValues |-> Stringify(v)]
Decodes(text) == \E v \in JsonValues : JsonText[v] = text
Decode(text) == CHOOSE v \in JsonValues : JsonText[v] = text

\* Error values.
Error(message) == [name |-> "Error", message |-> message]
FetchFailed == [name |-> "TypeError", message |-> "fetch failed"]
JsonSyntaxError == [name |-> "SyntaxError", message |-> "Unexpected token"]
NotAFunction == [name |-> "TypeError", message |-> "posts.slice is not a function"]

\* How an async frame ends.
Pending == [kind |-> "pending"]
Return(v) == [kind |-> "return", value |-> v]
Throw(e) == [kind |-> "throw", error |-> e]

(***************************************************************************)
(* Plain objects with optional keys (options, headers, the fetch init):    *)
(* functions from the keys present.  Spread(base, over) is                 *)
(* {...base, ...over}: the later spread wins on every key it has.          *)
(***************************************************************************)
EmptyObject == << >>
Spread(base, over) ==
    [key \in DOMAIN base \cup DOMAIN over |->
        IF key \in DOMAIN over THEN over[key] ELSE base[key]]

(***************************************************************************)
(* core/lib/apiClient.ts                                                   *)
(***************************************************************************)
API_BASE_URL == "https://jsonplaceholder.typicode.com"

DefaultHeaders == "Content-Type" :> "application/json"

\* const headers = {"Content-Type": "application/json", ...(options.headers || {})}
MergeHeaders(options) ==
    Spread(DefaultHeaders,
           IF "headers" \in DOMAIN options THEN options["headers"] ELSE EmptyObject)

\* options.body, undefined when the key is missing.
OptionsBody(options) ==
    IF "body" \in DOMAIN options THEN options["body"] ELSE Undefined

\* options.body ? JSON.stringify(options.body) : undefined
SerializedBody(options) ==
    IF Truthy(OptionsBody(options))
    THEN Str(Stringify(OptionsBody(options)))
    ELSE Undefined

\* The init object handed to fetch: the four fields, then ...options over them.
\* (FetchInitDefaultsWin: the fields spread over options instead;
\*  FetchInitCacheFixed: cache applied after ...options.)
FetchInitDefaultsWin(method, options) ==
    Spread(options,
           [method |-> method,
            headers |-> Spread(IF "headers" \in DOMAIN options
                               THEN options["headers"] ELSE EmptyObject,
                               DefaultHeaders),
            cache |-> "no-store",
            body |-> SerializedBody(options)])
FetchInitCacheFixed(method, options) ==
    Spread(Spread([method |-> method,
                   headers |-> MergeHeaders(options),
                   body |-> SerializedBody(options)],
                  options),
           [cache |-> "no-store"])
FetchInit(method, options) ==
    Spread([method |-> method,
            headers |-> MergeHeaders(options),
            cache |-> "no-store",
            body |-> SerializedBody(options)],
           options)

\* fetch(`${API_BASE_URL}${endpoint}`, init)
FetchCall(endpoint, method, options) ==
    [url |-> API_BASE_URL \o endpoint, init |-> FetchInit(method, options)]

\* apiClient.get/post/put/patch/delete: the (endpoint, method, options) of request.
RequestArgs(op, endpoint, body, options) ==
    CASE op = "get" -> [endpoint |-> endpoint, method |-> "GET", options |-> options]
      [] op = "post" -> [endpoint |-> endpoint, method |-> "POST",
                         options |-> Spread(options, [body |-> body])]
      [] op = "put" -> [endpoint |-> endpoint, method |-> "PUT",
                        options |-> Spread(options, [body |-> body])]
      [] op = "patch" -> [endpoint |-> endpoint, method |-> "PATCH",
                          options |-> Spread(options, [body |-> body])]
      [] op = "delete" -> [endpoint |-> endpoint, method |-> "DELETE", options |-> options]

\* res.ok (IsOkBelow299: the upper end excluded).
IsOkBelow299(status) == 200 <= status /\ status < 299
IsOk(status) == 200 <= status /\ status <= 299

\* `API Error: ${res.status} ${res.statusText}`
StatusMessage(res) ==
    "API Error: " \o ToString(res.status) \o " " \o res.statusText

\* try { errorMessage = (await res.json())?.message || errorMessage } catch {}
\* and the String(...) that new Error(errorMessage) applies.
\* (ErrorMessageIgnoresBody: the body never read; ErrorMessageNoFallback: no
\*  `|| errorMessage` and no catch.)
ErrorMessageIgnoresBody(errorMessage, text) == errorMessage
ErrorMessageNoFallback(errorMessage, text) ==
    IF Decodes(text)
    THEN (IF GetProp(Decode(text), "message").k = "undefined"
          THEN "" ELSE JsToString(GetProp(Decode(text), "message")))
    ELSE JsonSyntaxError.message
ErrorMessage(errorMessage, text) ==
    IF Decodes(text) /\ Truthy(GetProp(Decode(text), "message"))
    THEN JsToString(GetProp(Decode(text), "message"))
    ELSE errorMessage

\* return res.json() as Promise<T>
JsonResult(text) ==
    IF Decodes(text) THEN Return(Decode(text)) ELSE Throw(JsonSyntaxError)

(***************************************************************************)
(* features/posts: fetchPosts, getPosts; app/posts/page.tsx: PostsPage     *)
(***************************************************************************)
POSTS_LIMIT == 10

Min(a, b) == IF a <= b THEN a ELSE b

\* posts.slice(0, n) for n >= 0; a value without slice throws.
Slice(v, n) ==
    CASE v.k = "array" -> Return(Arr(SubSeq(v.xs, 1, Min(n, Len(v.xs)))))
      [] v.k = "string" -> Return(Str(SubSeq(v.s, 1, Min(n, Len(v.s)))))
      [] OTHER -> Throw(NotAFunction)

\* getPosts after `await fetchPosts()`; the limit a caller passes is no parameter.
\* (GetPostsSwallows: a catch that answers with an empty list.)
GetPostsSwallows(awaited, limit) ==
    IF awaited.kind = "return" THEN Slice(awaited.value, POSTS_LIMIT)
    ELSE Return(Arr(<< >>))
GetPosts(awaited, limit) ==
    IF awaited.kind = "return" THEN Slice(awaited.value, POSTS_LIMIT) ELSE awaited

\* fetchPosts: return apiClient.get<Post[]>("/posts")
FetchPosts(awaited) == awaited

\* PostsPage after `await getPosts()`: the markup around <PostsList posts={posts} />.
PostsPage(awaited) ==
    IF awaited.kind = "return"
    THEN Return([k |-> "element", posts |-> awaited.value])
    ELSE awaited

(***************************************************************************)
(* Inputs.                                                                 *)
(***************************************************************************)
Ops == {"get", "post", "put", "patch", "delete"}
BodyOps == {"post", "put", "patch"}

RequestBodies ==
    {Undefined, Null, Num(0), Bool(FALSE), Str(""), Str("x"), TitleX,
     Arr(<<Num(1)>>)}

HeaderOverrides ==
    {EmptyObject,
     "Content-Type" :> "text/plain",
     "Authorization" :> "Bearer t",
     ("Content-Type" :> "text/plain") @@ ("Authorization" :> "Bearer t")}

OptionSets ==
    {Spread(h, c) :
        h \in {EmptyObject} \cup {"headers" :> m : m \in HeaderOverrides},
        c \in {EmptyObject, "cache" :> "force-cache"}}

\* One call: through apiClient, through getPosts with a limit, or through the page.
GatewayCalls ==
    {[via |-> "apiClient", op |-> op, endpoint |-> "/posts", body |-> b, options |-> o] :
        op \in BodyOps, b \in RequestBodies, o \in OptionSets}
    \cup
    {[via |-> "apiClient", op |-> op, endpoint |-> "/posts", body |-> Undefined,
      options |-> o] :
        op \in Ops \ BodyOps,
        o \in OptionSets \cup {Spread(x, [body |-> TitleX]) : x \in OptionSets}}
ServiceCalls == {[via |-> "getPosts", limit |-> n] : n \in 0..MaxLimit}
PageCalls == {[via |-> "PostsPage"]}
Calls == GatewayCalls \cup ServiceCalls \cup PageCalls

Statuses == {199, 200, 299, 300, 500}
StatusText(status) ==
    CASE status = 200 -> "OK"
      [] status = 300 -> "Multiple Choices"
      [] status = 500 -> "Internal Server Error"
      [] OTHER -> ""
Responses ==
    {[status |-> st, statusText |-> StatusText(st), text |-> t] :
        st \in Statuses, t \in BodyTexts}

\* The few inputs of the concurrent specification.
ConcCalls ==
    {[via |-> "apiClient", op |-> "get", endpoint |-> "/posts", body |-> Undefined,
      options |-> EmptyObject],
     [via |-> "apiClient", op |-> "post", endpoint |-> "/posts", body |-> TitleX,
      options |-> EmptyObject],
     [via |-> "PostsPage"]}
ConcResponses ==
    {[status |-> 200, statusText |-> StatusText(200), text |-> JsonText[PostList(1)]],
     [status |-> 200, statusText |-> StatusText(200), text |-> "<html>"],
     [status |-> 500, statusText |-> StatusText(500),
      text |-> JsonText[Message(Str("boom"))]]}

(***************************************************************************)
(* State.                                                                  *)
(***************************************************************************)
VARIABLES
    call,          \* call[c]: the call made in slot c, NoCall before it is made
    stack,         \* stack[c]: the async frames still to complete, innermost last
    pc,            \* pc[c]: where request is
    sent,          \* sent[c]: the transport requests issued, in order
    response,      \* response[c]: what fetch resolved with
    errorMessage,  \* errorMessage[c]: request's local
    completion     \* completion[c]: how the innermost completed frame ended

vars == <<call, stack, pc, sent, response, errorMessage, completion>>

Slots == 1..NCalls
NoCall == [via |-> "none"]
NoResponse == [status |-> 0, statusText |-> "", text |-> ""]

Frames(d) ==
    CASE d.via = "apiClient" -> <<"request">>
      [] d.via = "getPosts" -> <<"getPosts", "fetchPosts", "request">>
      [] d.via = "PostsPage" -> <<"PostsPage", "getPosts", "fetchPosts", "request">>

\* The arguments request runs with.
ArgsOf(d) ==
    IF d.via = "apiClient"
    THEN RequestArgs(d.op, d.endpoint, d.body, d.options)
    ELSE RequestArgs("get", "/posts", Undefined, EmptyObject)

Init ==
    /\ call = [c \in Slots |-> NoCall]
    /\ stack = [c \in Slots |-> << >>]
    /\ pc = [c \in Slots |-> "idle"]
    /\ sent = [c \in Slots |-> << >>]
    /\ response = [c \in Slots |-> NoResponse]
    /\ errorMessage = [c \in Slots |-> ""]
    /\ completion = [c \in Slots |-> Pending]

Top(c) == stack[c][Len(stack[c])]
Pop(c) == SubSeq(stack[c], 1, Len(stack[c]) - 1)

\* The caller runs synchronously down to request's `await fetch(...)`.
Call(c, d) ==
    /\ pc[c] = "idle"
    /\ call' = [call EXCEPT ![c] = d]
    /\ stack' = [stack EXCEPT ![c] = Frames(d)]
    /\ sent' = [sent EXCEPT ![c] =
                  Append(@, FetchCall(ArgsOf(d).endpoint, ArgsOf(d).method,
                                      ArgsOf(d).options))]
    /\ pc' = [pc EXCEPT ![c] = "awaitFetch"]
    /\ UNCHANGED <<response, errorMessage, completion>>

\* fetch rejects: nothing around the await catches, request ends with the error.
\* (FetchRejectedRetries: a second fetch after the first failure.)
FetchRejectedRetries(c, err) ==
    IF Len(sent[c]) < 2
    THEN /\ sent' = [sent EXCEPT ![c] = Append(@, @[1])]
         /\ UNCHANGED <<call, stack, pc, response, errorMessage, completion>>
    ELSE /\ completion' = [completion EXCEPT ![c] = Throw(err)]
         /\ pc' = [pc EXCEPT ![c] = "settled"]
         /\ stack' = [stack EXCEPT ![c] = Pop(c)]
         /\ UNCHANGED <<call, sent, response, errorMessage>>
FetchRejected(c, err) ==
    /\ completion' = [completion EXCEPT ![c] = Throw(err)]
    /\ pc' = [pc EXCEPT ![c] = "settled"]
    /\ stack' = [stack EXCEPT ![c] = Pop(c)]
    /\ UNCHANGED <<call, sent, response, errorMessage>>

FetchRejects(c) ==
    /\ pc[c] = "awaitFetch"
    /\ FetchRejected(c, FetchFailed)

\* fetch resolves with res: `if (!res.ok)` picks the branch, each awaiting res.json().
FetchResolves(c, res) ==
    /\ pc[c] = "awaitFetch"
    /\ response' = [response EXCEPT ![c] = res]
    /\ IF ~IsOk(res.status)
       THEN /\ errorMessage' = [errorMessage EXCEPT ![c] = StatusMessage(res)]
            /\ pc' = [pc EXCEPT ![c] = "awaitErrorJson"]
       ELSE /\ pc' = [pc EXCEPT ![c] = "awaitJson"]
            /\ UNCHANGED errorMessage
    /\ UNCHANGED <<call, stack, sent, completion>>

\* The error branch's res.json() settles; request throws new Error(errorMessage).
ErrorJsonSettles(c) ==
    /\ pc[c] = "awaitErrorJson"
    /\ errorMessage' = [errorMessage EXCEPT ![c] = ErrorMessage(@, response[c].text)]
    /\ completion' = [completion EXCEPT ![c] = Throw(Error(errorMessage'[c]))]
    /\ pc' = [pc EXCEPT ![c] = "settled"]
    /\ stack' = [stack EXCEPT ![c] = Pop(c)]
    /\ UNCHANGED <<call, sent, response>>

\* The success branch's res.json() settles; request's promise follows it.
JsonSettles(c) ==
    /\ pc[c] = "awaitJson"
    /\ completion' = [completion EXCEPT ![c] = JsonResult(response[c].text)]
    /\ pc' = [pc EXCEPT ![c] = "settled"]
    /\ stack' = [stack EXCEPT ![c] = Pop(c)]
    /\ UNCHANGED <<call, sent, response, errorMessage>>

\* The frames above request resume with what they awaited.
FetchPostsSettles(c) ==
    /\ pc[c] = "settled" /\ stack[c] # << >> /\ Top(c) = "fetchPosts"
    /\ completion' = [completion EXCEPT ![c] = FetchPosts(@)]
    /\ stack' = [stack EXCEPT ![c] = Pop(c)]
    /\ UNCHANGED <<call, pc, sent, response, errorMessage>>

GetPostsResumes(c) ==
    /\ pc[c] = "settled" /\ stack[c] # << >> /\ Top(c) = "getPosts"
    /\ completion' = [completion EXCEPT ![c] =
                        GetPosts(@, IF call[c].via = "getPosts"
                                    THEN call[c].limit ELSE POSTS_LIMIT)]
    /\ stack' = [stack EXCEPT ![c] = Pop(c)]
    /\ UNCHANGED <<call, pc, sent, response, errorMessage>>

PostsPageResumes(c) ==
    /\ pc[c] = "settled" /\ stack[c] # << >> /\ Top(c) = "PostsPage"
    /\ completion' = [completion EXCEPT ![c] = PostsPage(@)]
    /\ stack' = [stack EXCEPT ![c] = Pop(c)]
    /\ UNCHANGED <<call, pc, sent, response, errorMessage>>

\* One call, every input.
Next ==
    \/ \E d \in Calls : Call(1, d)
    \/ FetchRejects(1)
    \/ \E res \in Responses : FetchResolves(1, res)
    \/ ErrorJsonSettles(1)
    \/ JsonSettles(1)
    \/ FetchPostsSettles(1)
    \/ GetPostsResumes(1)
    \/ PostsPageResumes(1)

Spec == Init /\ [][Next]_vars

\* NCalls calls in flight together, the transport answering in any order.
Continue(c) ==
    \/ ErrorJsonSettles(c)
    \/ JsonSettles(c)
    \/ FetchPostsSettles(c)
    \/ GetPostsResumes(c)
    \/ PostsPageResumes(c)

ConcNext ==
    \/ \E c \in Slots, d \in ConcCalls : Call(c, d)
    \/ \E c \in Slots : FetchRejects(c)
    \/ \E c \in Slots, res \in ConcResponses : FetchResolves(c, res)
    \/ \E c \in Slots : Continue(c)

\* The event loop runs every continuation whose promise has settled.
ConcSpec == Init /\ [][ConcNext]_vars /\ \A c \in Slots : WF_vars(Continue(c))

(***************************************************************************)
(* What the claims speak of.                                               *)
(***************************************************************************)
\* The call in slot c has reached fetch; the init it handed over.
Made(c) == pc[c] # "idle"
InitOf(c) == sent[c][1].init
\* The options the caller gave to the gateway operation.
CallerOptions(c) == IF call[c].via = "apiClient" THEN call[c].options ELSE EmptyObject
CallerHeaders(c) ==
    IF "headers" \in DOMAIN CallerOptions(c)
    THEN CallerOptions(c)["headers"] ELSE EmptyObject
\* request has ended and no frame above it has resumed yet.
RequestSettled(c) ==
    pc[c] = "settled" /\ Len(stack[c]) = Len(Frames(call[c])) - 1
Responded(c) == response[c] # NoResponse
SuccessStatus(c) == response[c].status \in 200..299
FailureStatus(c) == Responded(c) /\ response[c].status \notin 200..299
GenericDescription(c) ==
    "API Error: " \o ToString(response[c].status) \o " " \o response[c].statusText
\* Every frame of the call has completed.
Done(c) == pc[c] = "settled" /\ stack[c] = << >>

\* C1: a body given to post/put/patch reaches fetch as its JSON serialization
\* (0, false, "" and null included), and a call without a body hands fetch none.
C1_BodyIsJsonOrAbsent ==
    \A c \in Slots :
        (Made(c) /\ call[c].via = "apiClient") =>
            /\ (call[c].op \in BodyOps /\ call[c].body # Undefined)
                  => InitOf(c)["body"] = Str(Stringify(call[c].body))
            /\ (call[c].op \in BodyOps /\ call[c].body = Undefined)
                  => InitOf(c)["body"] = Undefined
            /\ (call[c].op \notin BodyOps /\ "body" \notin DOMAIN call[c].options)
                  => InitOf(c)["body"] = Undefined

\* C2: unless the caller overrides Content-Type, the outgoing headers carry
\* Content-Type: application/json, whatever other headers the caller gives.
C2_ContentTypeDefault ==
    \A c \in Slots :
        (Made(c) /\ "Content-Type" \notin DOMAIN CallerHeaders(c)) =>
            /\ "Content-Type" \in DOMAIN InitOf(c)["headers"]
            /\ InitOf(c)["headers"]["Content-Type"] = "application/json"

\* C3: every header of the caller's override mapping, Content-Type included,
\* is in the outgoing headers with the override's value.
C3_OverrideWins ==
    \A c \in Slots :
        Made(c) =>
            \A h \in DOMAIN CallerHeaders(c) :
                /\ h \in DOMAIN InitOf(c)["headers"]
                /\ InitOf(c)["headers"][h] = CallerHeaders(c)[h]
C3_Witness ==
    /\ Made(1)
    /\ "Content-Type" \in DOMAIN CallerHeaders(1)
    /\ "Authorization" \in DOMAIN CallerHeaders(1)
    /\ InitOf(1)["headers"]["Content-Type"] = "text/plain"
    /\ InitOf(1)["headers"]["Authorization"] = "Bearer t"

C6_SuccessReturnsDecoded ==
    \A c \in Slots :
        (RequestSettled(c) /\ Responded(c)) =>
            /\ (SuccessStatus(c) /\ Decodes(response[c].text))
                  => completion[c] = Return(Decode(response[c].text))
            /\ SuccessStatus(c)
                  => ~(completion[c].kind = "throw" /\ completion[c].error.name = "Error")
            /\ ~SuccessStatus(c) => completion[c].kind = "throw"
C6_Witness ==
    /\ RequestSettled(1) /\ call[1].via = "apiClient" /\ call[1].op = "get"
    /\ response[1].status = 200
    /\ completion[1] = Return(PostList(1))

C8_FirstNPosts ==
    \A c \in Slots :
        (Done(c) /\ call[c].via = "getPosts" /\ Responded(c) /\ SuccessStatus(c)
         /\ Decodes(response[c].text) /\ Decode(response[c].text).k = "array") =>
            LET L == Decode(response[c].text).xs
                N == call[c].limit
            IN  completion[c] = Return(Arr([i \in 1..Min(N, Len(L)) |-> L[i]]))

\* C9: a rejected fetch, or a 2xx body that does not decode, ends request with
\* that very error, and every frame up to PostsPage ends with it too: one
\* transport request, no replacement, no fallback value.
C9_ErrorsPropagateUnchanged ==
    \A c \in Slots :
        pc[c] = "settled" =>
            /\ ~Responded(c) => completion[c] = Throw(FetchFailed)
            /\ (Responded(c) /\ SuccessStatus(c) /\ ~Decodes(response[c].text))
                  => completion[c] = Throw(JsonSyntaxError)
            /\ (~Responded(c) \/ (SuccessStatus(c) /\ ~Decodes(response[c].text)))
                  => Len(sent[c]) = 1
C9_Witness ==
    /\ call[1].via = "PostsPage" /\ Done(1)
    /\ ~Responded(1)
    /\ completion[1] = Throw(FetchFailed)

\* C10: every call issues exactly one transport request, its own state is all
\* a step of it changes, equal calls with equal responses end alike, an outcome
\* once reached stays, and once the transport has answered the call ends as a
\* returned value or a raised error.
SlotState(c) ==
    <<call[c], stack[c], pc[c], sent[c], response[c], errorMessage[c], completion[c]>>
C10_SingleShot ==
    /\ [](\A c \in Slots : Len(sent[c]) = IF Made(c) THEN 1 ELSE 0)
    /\ [][\A c1, c2 \in Slots :
            (c1 # c2 /\ SlotState(c1)' # SlotState(c1)) => SlotState(c2)' = SlotState(c2)]_vars
    /\ [](\A c1, c2 \in Slots :
            (Done(c1) /\ Done(c2) /\ call[c1] = call[c2] /\ response[c1] = response[c2])
                => completion[c1] = completion[c2])
    /\ [][\A c \in Slots : Done(c) => (Done(c)' /\ completion'[c] = completion[c])]_vars
    /\ \A c \in Slots :
         (pc[c] \notin {"idle", "awaitFetch"})
             ~> (Done(c) /\ completion[c].kind \in {"return", "throw"})
C10_Witness ==
    /\ Done(1) /\ Done(2)
    /\ call[1] = call[2] /\ call[1].via = "apiClient"
    /\ completion[1].kind = "return" /\ completion[2].kind = "throw"
    /\ Len(sent[1]) = 1 /\ Len(sent[2]) = 1

====
